---------------------------- MODULE Spec2Model ----------------------------
(***************************************************************************)
(* A model of neurosynth/analysis/classify.py: the region based           *)
(* classification pipeline (get_studies_by_regions, regularize,           *)
(* classify_regions, classify) and the Classifier wrapper (__init__, fit, *)
(* cross_val_fit).                                                        *)
(*                                                                         *)
(* The functions of the module are pure apart from the Classifier wrapper, *)
(* so a behaviour is either one call of a pipeline function on inputs      *)
(* drawn from bounded sets (pc goes "start" -> "done"), or a session on    *)
(* one wrapper: Classifier(...), then any sequence of fit and              *)
(* cross_val_fit calls (pc = "session").                                   *)
(*                                                                         *)
(* Python values are encoded as records [t, v]: t is the type ("none",     *)
(* "str", "dict", "obj"), v the string's text or the object's class.       *)
(* A study id is a record [t, s, n]: a string of characters s              *)
(* (t = "str") or an integer n (t = "int").                                *)
(***************************************************************************)
EXTENDS Integers, Sequences, FiniteSets, TLC

VARIABLES pc,    \* the caller's position: "start", "done" or "session"
          call,  \* the arguments of the last call
          gs,    \* the frame of get_studies_by_regions: its locals, what it
                 \* asked of the dataset, how it ended
          w,     \* the Classifier wrapper: clf, X, y, cver, cvs
          ret    \* how the last call on the classifier side ended

vars == <<pc, call, gs, w, ret>>

\* The longest list of masks a call is given.
MaxMasks == 2

-----------------------------------------------------------------------------
(* Python values *)

PyNone == [t |-> "none", v |-> ""]
PyStr(s) == [t |-> "str", v |-> s]
PyDict(s) == [t |-> "dict", v |-> s]
PyObj(s) == [t |-> "obj", v |-> s]

\* Python's truth value: None and the empty string are false.
Truthy(x) == ~(x.t = "none" \/ (x.t = "str" /\ x.v = ""))

\* x == 'text'
IsStr(x, text) == x.t = "str" /\ x.v = text

-----------------------------------------------------------------------------
(* Study ids *)

StrId(chars) == [t |-> "str", s |-> chars, n |-> 0]
IntId(k) == [t |-> "int", s |-> <<>>, n |-> k]

DigitChars == {"0", "1", "2", "3", "4", "5", "6", "7", "8", "9"}

DigitValue(c) ==
    CASE c = "0" -> 0 [] c = "1" -> 1 [] c = "2" -> 2 [] c = "3" -> 3
      [] c = "4" -> 4 [] c = "5" -> 5 [] c = "6" -> 6 [] c = "7" -> 7
      [] c = "8" -> 8 [] c = "9" -> 9

\* str.isdigit(): a non-empty string of decimal digits.
isdigit(id) == Len(id.s) > 0 /\ \A i \in 1..Len(id.s) : id.s[i] \in DigitChars

RECURSIVE DecimalValue(_)
DecimalValue(chars) ==
    IF chars = <<>> THEN 0
    ELSE 10 * DecimalValue(SubSeq(chars, 1, Len(chars) - 1))
         + DigitValue(chars[Len(chars)])

\* int(s) for a string of digits.
int(id) == IntId(DecimalValue(id.s))

\* The studies of the dataset, and the id the dataset gives each under one
\* id format: strings of digits, strings of which one has a letter, or
\* integers.
Studies == {1, 2, 3}
IdFormats == {"digits", "mixed", "int"}

StudyDigits(k) ==
    CASE k = 1 -> <<"7">> [] k = 2 -> <<"0", "3">> [] OTHER -> <<"1", "2">>

StudyId(fmt, k) ==
    CASE fmt = "digits" -> StrId(StudyDigits(k))
      [] fmt = "mixed" -> IF k = 1 THEN StrId(<<"s">> \o StudyDigits(k))
                          ELSE StrId(StudyDigits(k))
      [] OTHER -> IntId(DecimalValue(StudyDigits(k)))

IdsOf(fmt) == {StudyId(fmt, k) : k \in Studies}

\* The sequences over S without a repeated element.
DupFreeSeqs(S) ==
    UNION {{q \in [1..n -> S] : \A i, j \in 1..n : i # j => q[i] # q[j]}
           : n \in 0..Cardinality(S)}

RECURSIVE SetToSeq(_)
SetToSeq(S) ==
    IF S = {} THEN <<>>
    ELSE LET x == CHOOSE e \in S : TRUE IN <<x>> \o SetToSeq(S \ {x})

Range(q) == {q[i] : i \in 1..Len(q)}

-----------------------------------------------------------------------------
(* The dataset and the image library: outside this file *)

\* A mask file: whether nibabel can load it, and the ids of the studies the
\* dataset reports for it.
Mask(readable, ids) == [readable |-> readable, ids |-> ids]

MasksOf(fmt) ==
    {Mask(TRUE, g) : g \in DupFreeSeqs(IdsOf(fmt))} \cup {Mask(FALSE, <<>>)}

MaskLists(fmt) == UNION {[1..n -> MasksOf(fmt)] : n \in 0..MaxMasks}

\* dataset.get_ids_by_mask(m, threshold): the ids of the studies of mask m.
get_ids_by_mask(m) == m.ids

\* One column of feature weights; an entry stands for num / sqrt(den2).
Entry(num, den2) == [num |-> num, den2 |-> den2]

FeatureWeight(id) ==
    IF id.t = "int" THEN id.n ELSE Len(id.s) + DecimalValue(<<id.s[Len(id.s)]>>)

\* dataset.get_feature_data(ids=ids): one row per id, in the order of ids.
get_feature_data(ids) ==
    [i \in 1..Len(ids) |-> Entry(FeatureWeight(ids[i]), 1)]


-----------------------------------------------------------------------------
(* regularize *)

Sum(X) == LET RECURSIVE S(_)
              S(i) == IF i = 0 THEN 0 ELSE S(i - 1) + X[i].num
          IN S(Len(X))

SumSq(X) == LET RECURSIVE S(_)
                S(i) == IF i = 0 THEN 0 ELSE S(i - 1) + X[i].num * X[i].num
            IN S(Len(X))

\* sklearn's preprocessing.scale(X, with_mean=False) on a column of raw
\* weights: each entry divided by the column's standard deviation
\* sqrt(N * SumSq - Sum^2) / N, a column of deviation 0 left as it is.
scale(X) ==
    LET N == Len(X)
        d == N * SumSq(X) - Sum(X) * Sum(X)
    IN IF d = 0 THEN X
       ELSE [i \in 1..N |-> Entry(X[i].num * N, d * X[i].den2)]

regularize_default_identity(X, method) ==
    IF IsStr(method, "scale") THEN [raised |-> "", X |-> scale(X)]
    ELSE [raised |-> "", X |-> X]

\* regularize(X, method): the scaled matrix, or the exception raised.
regularize(X, method) ==
    IF IsStr(method, "scale") THEN [raised |-> "", X |-> scale(X)]
    ELSE [raised |-> "Unrecognized regularization method", X |-> X]

-----------------------------------------------------------------------------
(* get_studies_by_regions *)

\* The frame of a call: grouped_in is what the dataset answered, grouped_ids,
\* y and X the locals of these names, listed_ids the local flat_ids when y is
\* built and flat_ids the same local when it goes to get_feature_data.
NoStudies == [given |-> FALSE, ids |-> {}]
StudyList(S) == [given |-> TRUE, ids |-> S]

Frame0 ==
    [status |-> "none", error |-> "", printed |-> FALSE,
     mask_queries |-> 0, feature_queries |-> 0, regularize_calls |-> 0,
     grouped_in |-> <<>>, grouped_ids |-> <<>>, listed_ids |-> <<>>,
     flat_ids |-> <<>>, y |-> <<>>, X_raw |-> <<>>, X |-> <<>>]

Raised(frame, error) == [frame EXCEPT !.status = "raised", !.error = error]
Returned(frame) == [frame EXCEPT !.status = "returned"]

\* reduce(lambda a, b: a + b, lists) of a non-empty list of lists.
RECURSIVE Flatten(_)
Flatten(lists) ==
    IF Len(lists) = 0 THEN <<>>
    ELSE Flatten(SubSeq(lists, 1, Len(lists) - 1)) \o lists[Len(lists)]

Count(x, q) == Cardinality({i \in 1..Len(q) : q[i] = x})

\* The ids of q that occur in it once, and those that occur more often.
Once(q) == {x \in Range(q) : Count(x, q) = 1}
Repeated(q) == {x \in Range(q) : Count(x, q) > 1}

\* The orders in which Counter(flat_ids).items() may yield its keys: a dict
\* of Python 2 iterates in the order of its hash table, which is not the
\* order of insertion. The keys counted more than once are dropped wherever
\* they stand, so one place for them (the end) stands for all.
CounterOrders(flat_ids) ==
    {q \o SetToSeq(Repeated(flat_ids)) : q \in
        {r \in DupFreeSeqs(Once(flat_ids)) : Len(r) = Cardinality(Once(flat_ids))}}

counted_once_keeps_repeated(items, flat_ids) == items

\* [id for (id, count) in Counter(flat_ids).items() if count == 1]
counted_once(items, flat_ids) ==
    SelectSeq(items, LAMBDA id : Count(id, flat_ids) = 1)

\* [[x for x in m if x in flat_ids] for m in grouped_ids]
keep_listed(grouped_ids, flat_ids) ==
    [g \in 1..Len(grouped_ids) |->
        SelectSeq(grouped_ids[g], LAMBDA x : x \in Range(flat_ids))]

\* y = [[idx] * len(ids) for (idx, ids) in enumerate(grouped_ids)], flattened
labels(grouped_ids) ==
    Flatten([g \in 1..Len(grouped_ids) |->
                [i \in 1..Len(grouped_ids[g]) |-> g - 1]])

\* if not False in [i.isdigit() for i in flat_ids]: [int(s) for s in flat_ids]
normalise_ids(flat_ids) ==
    IF \A i \in 1..Len(flat_ids) : isdigit(flat_ids[i])
    THEN [i \in 1..Len(flat_ids) |-> int(flat_ids[i])]
    ELSE flat_ids

\* The classes of the error nib.load raises on a path it cannot load.
LoadErrors == {"OSError", "IOError"}

\* get_studies_by_regions(dataset, masks, threshold, remove_overlap, studies,
\* features, regularization): the frame the call ends with. load_error is
\* the class of the error nib.load raises on an unreadable mask, items the
\* order Counter yields its keys in. threshold and features go to the
\* dataset as they are.
get_studies_by_regions(masks, remove_overlap, studies, regularization, load_error, items) ==
    LET unreadable == \E i \in 1..Len(masks) : ~masks[i].readable
    IN
    IF unreadable /\ load_error # "OSError" THEN Raised(Frame0, load_error)
    ELSE IF unreadable
    THEN \* except OSError: print, and loaded_masks is never bound
         Raised([Frame0 EXCEPT !.printed = TRUE], "NameError")
    ELSE
    LET grouped_in == [i \in 1..Len(masks) |-> get_ids_by_mask(masks[i])]
        f1 == [Frame0 EXCEPT !.mask_queries = Len(masks),
                             !.grouped_in = grouped_in,
                             !.grouped_ids = grouped_in]
    IN
    IF Len(grouped_in) = 0 THEN Raised(f1, "TypeError")
    ELSE
    LET all_ids == Flatten(grouped_in)
        flat_ids == IF remove_overlap THEN counted_once(items, all_ids)
                    ELSE all_ids
        grouped_ids == IF remove_overlap THEN keep_listed(grouped_in, flat_ids)
                       ELSE grouped_in
        f2 == [f1 EXCEPT !.grouped_ids = grouped_ids,
                         !.listed_ids = flat_ids, !.flat_ids = flat_ids,
                         !.y = labels(grouped_ids)]
    IN
    IF \E i \in 1..Len(flat_ids) : flat_ids[i].t = "int"
    THEN Raised(f2, "AttributeError")   \* an int has no isdigit
    ELSE
    LET ids == normalise_ids(flat_ids)
        X == get_feature_data(ids)
        f3 == [f2 EXCEPT !.flat_ids = ids, !.feature_queries = 1,
                         !.X_raw = X, !.X = X]
    IN
    IF Truthy(regularization)
    THEN LET r == regularize(X, regularization)
             f4 == [f3 EXCEPT !.regularize_calls = 1]
         IN IF r.raised # "" THEN Raised(f4, r.raised)
            ELSE Returned([f4 EXCEPT !.X = r.X])
    ELSE Returned(f3)

-----------------------------------------------------------------------------
(* The estimators of scikit-learn: outside this file *)

NoCver == [t |-> "unset", v |-> "", k |-> 0, y |-> <<>>]

\* cross_validation.StratifiedKFold(y, k, indices=False)
StratifiedKFold(y, k) == [t |-> "obj", v |-> "StratifiedKFold", k |-> k, y |-> y]

\* A fold generator the caller made (or whatever else the caller passed).
Given(cross_val) == [t |-> cross_val.t, v |-> cross_val.v, k |-> 0, y |-> <<>>]

\* An estimator: its class, the layers of GridSearchCV around it, the
\* parameters this file sets, and what it was last fit on.
Estimator(kind, class_weight) ==
    [kind |-> kind, class_weight |-> class_weight, reseeded |-> FALSE,
     grids |-> 0, cv |-> NoCver, scoring |-> "",
     fitted |-> FALSE, fit_X |-> <<>>, fit_y |-> <<>>]

\* The estimator object the caller passes as classifier.
Supplied(classifier) ==
    IF classifier.v = "GridSearchCV"
    THEN [Estimator("GaussianNB", PyNone) EXCEPT !.grids = 1]
    ELSE Estimator(classifier.v, PyNone)

\* GridSearchCV(estimator=clf, param_grid=param_grid, n_jobs=-1)
GridSearchCV(clf) == [clf EXCEPT !.grids = @ + 1]

\* isinstance(clf, GridSearchCV)
IsGridSearchCV(clf) == clf.grids > 0

\* clf.fit(X, y): the estimator, fit on X and y.
EstimatorFit(clf, X, y) ==
    [clf EXCEPT !.fitted = TRUE, !.fit_X = X, !.fit_y = y]

NoScores ==
    [kind |-> "unset", X |-> <<>>, y |-> <<>>, cver |-> NoCver, scoring |-> ""]

\* cross_validation.cross_val_score(clf, X, y, cv=cver, scoring=scoring):
\* the scores of clones of clf, one per fold; clf itself is not fit.
cross_val_score(clf, X, y, cver, scoring) ==
    [kind |-> "fold_scores", X |-> X, y |-> y, cver |-> cver,
     scoring |-> scoring]

\* clf.best_score_ of a grid search fit on X and y.
best_score_(clf) ==
    [kind |-> "best_score", X |-> clf.fit_X, y |-> clf.fit_y, cver |-> clf.cv,
     scoring |-> clf.scoring]

-----------------------------------------------------------------------------
(* Classifier *)

NoWrapper ==
    [exists |-> FALSE, clf |-> Estimator("", PyNone), has_xy |-> FALSE,
     X |-> <<>>, y |-> <<>>, cver |-> NoCver, cvs |-> NoScores]

Wrapper(clf) == [NoWrapper EXCEPT !.exists = TRUE, !.clf = clf]

Methods == {"SVM", "ERF", "GBC", "Dummy", "XYZ"}

method_defaults_to_ERF(clf_method, class_weight) ==
    CASE clf_method = "SVM" -> [raised |-> "", clf |-> Estimator("SVC", class_weight)]
      [] clf_method = "GBC" ->
            [raised |-> "", clf |-> Estimator("GradientBoostingClassifier", PyNone)]
      [] clf_method = "Dummy" ->
            [raised |-> "", clf |-> Estimator("DummyClassifier", PyNone)]
      [] OTHER -> [raised |-> "", clf |-> Estimator("ExtraTreesClassifier", PyNone)]

\* The estimator Classifier.__init__ makes for clf_method.
estimator_by_method(clf_method, class_weight) ==
    CASE clf_method = "SVM" -> [raised |-> "", clf |-> Estimator("SVC", class_weight)]
      [] clf_method = "ERF" ->
            [raised |-> "", clf |-> Estimator("ExtraTreesClassifier", PyNone)]
      [] clf_method = "GBC" ->
            [raised |-> "", clf |-> Estimator("GradientBoostingClassifier", PyNone)]
      [] clf_method = "Dummy" ->
            [raised |-> "", clf |-> Estimator("DummyClassifier", PyNone)]
      [] OTHER -> [raised |-> "Unrecognized classification method",
                   clf |-> Estimator("", PyNone)]

\* Classifier.__init__(clf_method, classifier, class_weight, param_grid): the
\* exception raised, or the new wrapper.
Classifier(clf_method, classifier, class_weight, param_grid) ==
    LET made == IF classifier.t # "none"
                THEN [raised |-> "",
                      clf |-> [Supplied(classifier) EXCEPT
                                 !.reseeded = (classifier.v = "LinearSVC")]]
                ELSE estimator_by_method(clf_method, class_weight)
    IN IF made.raised # "" THEN [raised |-> made.raised, w |-> NoWrapper]
       ELSE IF param_grid.t = "dict"
       THEN [raised |-> "", w |-> Wrapper(GridSearchCV(made.clf))]
       ELSE [raised |-> "", w |-> Wrapper(made.clf)]

\* Classifier.fit(X, y): the wrapper after the call; the call returns self.clf.
fit(self, X, y) ==
    [self EXCEPT !.has_xy = TRUE, !.X = X, !.y = y,
                 !.clf = EstimatorFit(self.clf, X, y)]

fold_generator_defaults(cross_val, y) ==
    IF cross_val.t = "str"
    THEN IF cross_val.v = "3-Fold"
         THEN [raised |-> "", cver |-> StratifiedKFold(y, 3)]
         ELSE [raised |-> "", cver |-> StratifiedKFold(y, 4)]
    ELSE [raised |-> "", cver |-> Given(cross_val)]

\* The fold generator cross_val_fit resolves cross_val to.
fold_generator(cross_val, y) ==
    IF cross_val.t = "str"
    THEN IF cross_val.v = "4-Fold"
         THEN [raised |-> "", cver |-> StratifiedKFold(y, 4)]
         ELSE IF cross_val.v = "3-Fold"
         THEN [raised |-> "", cver |-> StratifiedKFold(y, 3)]
         ELSE [raised |-> "Unrecognized cross validation method", cver |-> NoCver]
    ELSE [raised |-> "", cver |-> Given(cross_val)]

cross_val_fit_fits_too(self, X, y, cross_val, scoring) ==
    LET w1 == [self EXCEPT !.has_xy = TRUE, !.X = X, !.y = y]
        fg == fold_generator(cross_val, w1.y)
        w2 == [w1 EXCEPT !.cver = fg.cver]
        fitted == EstimatorFit([w2.clf EXCEPT !.cv = w2.cver, !.scoring = scoring], X, y)
    IN IF fg.raised # "" THEN [raised |-> fg.raised, w |-> w1]
       ELSE IF IsGridSearchCV(w2.clf)
       THEN [raised |-> "",
             w |-> [w2 EXCEPT !.clf = fitted, !.cvs = best_score_(fitted)]]
       ELSE [raised |-> "",
             w |-> [w2 EXCEPT !.clf = EstimatorFit(w2.clf, X, y),
                              !.cvs = cross_val_score(w2.clf, w2.X, w2.y,
                                                      w2.cver, scoring)]]

\* Classifier.cross_val_fit(X, y, cross_val, scoring): the exception raised
\* and the wrapper after the call; the call returns self.cvs.mean().
cross_val_fit(self, X, y, cross_val, scoring) ==
    LET w1 == [self EXCEPT !.has_xy = TRUE, !.X = X, !.y = y]
        fg == fold_generator(cross_val, w1.y)
        w2 == [w1 EXCEPT !.cver = fg.cver]
    IN IF fg.raised # "" THEN [raised |-> fg.raised, w |-> w1]
       ELSE IF IsGridSearchCV(w2.clf)
       THEN LET set == [w2.clf EXCEPT !.cv = w2.cver, !.scoring = scoring]
                fitted == EstimatorFit(set, X, y)
            IN [raised |-> "",
                w |-> [w2 EXCEPT !.clf = fitted, !.cvs = best_score_(fitted)]]
       ELSE [raised |-> "",
             w |-> [w2 EXCEPT !.cvs = cross_val_score(w2.clf, w2.X, w2.y,
                                                      w2.cver, scoring)]]

-----------------------------------------------------------------------------
(* classify and classify_regions *)

NoRet ==
    [op |-> "none", status |-> "none", error |-> "", value |-> "none",
     score |-> "none", n |-> {}, has_clf |-> FALSE]

Ret(op, value, score, n) ==
    [op |-> op, status |-> "ok", error |-> "", value |-> value,
     score |-> score, n |-> n, has_clf |-> value \in {"summary_clf", "clf"}]

RetRaised(op, error) == [NoRet EXCEPT !.op = op, !.status = "raised", !.error = error]

\* dict(Counter(y)): the count of each label of y.
Counter(y) == {<<l, Count(l, y)>> : l \in Range(y)}

\* What classify returns for output: the kind of value.
returned_value(output) ==
    CASE output = "summary" -> "summary"
      [] output = "summary_clf" -> "summary_clf"
      [] output = "clf" -> "clf"
      [] OTHER -> "none"

\* classify(X, y, method, classifier, output, cross_val, class_weight,
\* param_grid=param_grid, scoring=scoring): the wrapper it made and how the
\* call ended.
classify(X, y, method, classifier, output, cross_val, class_weight, param_grid, scoring) ==
    LET made == Classifier(method, classifier, class_weight, param_grid)
    IN IF made.raised # ""
       THEN [w |-> made.w, ret |-> RetRaised("classify", made.raised)]
       ELSE IF Truthy(cross_val)
       THEN LET cv == cross_val_fit(made.w, X, y, cross_val, scoring)
            IN IF cv.raised # ""
               THEN [w |-> cv.w, ret |-> RetRaised("classify", cv.raised)]
               ELSE [w |-> cv.w,
                     ret |-> Ret("classify", returned_value(output),
                                 cv.w.cvs.kind, Counter(y))]
       ELSE [w |-> fit(made.w, X, y),
             ret |-> Ret("classify", returned_value(output), "train_score",
                         Counter(y))]

\* classify_regions(dataset, masks, method, threshold, remove_overlap,
\* regularization, output, studies, features, class_weight, classifier,
\* cross_val, param_grid, scoring): the frame of get_studies_by_regions, the
\* wrapper classify made and how the call ended.
classify_regions(masks, method, remove_overlap, regularization, output, studies, class_weight, classifier, cross_val, param_grid, scoring, load_error, items) ==
    LET frame == get_studies_by_regions(masks, remove_overlap, studies,
                                        regularization, load_error, items)
    IN IF frame.status = "raised"
       THEN [gs |-> frame, w |-> NoWrapper,
             ret |-> RetRaised("classify_regions", frame.error)]
       ELSE LET c == classify(frame.X, frame.y, method, classifier, output,
                              cross_val, class_weight, param_grid, scoring)
            IN [gs |-> frame, w |-> c.w,
                ret |-> [c.ret EXCEPT !.op = "classify_regions"]]

-----------------------------------------------------------------------------
(* The inputs the calls are given *)

Classifiers ==
    {PyNone, PyObj("LinearSVC"), PyObj("GaussianNB"), PyObj("GridSearchCV")}
ClassWeights == {PyNone, PyStr("auto")}
ParamGrids == {PyNone, PyDict("grid")}
CrossVals ==
    {PyNone, PyStr(""), PyStr("4-Fold"), PyStr("3-Fold"), PyStr("5-Fold"),
     PyObj("KFold")}
Outputs == {"summary", "summary_clf", "clf", "table"}
Regularizations == {PyStr("scale"), PyNone, PyStr(""), PyStr("l2")}

\* The names a caller has for the studies K of a dataset: the dataset's ids
\* and, for ids of digits, the integers they stand for.
StudyNames(fmt, K) ==
    UNION {{StudyId(fmt, k)}
           \cup (IF isdigit(StudyId(fmt, k)) THEN {int(StudyId(fmt, k))} ELSE {})
           : k \in K}

StudyLists(fmt) == {NoStudies, StudyList(StudyNames(fmt, {1, 2}))}

Column(q) == [i \in 1..Len(q) |-> Entry(q[i], 1)]

\* Design matrices and label vectors for the calls that take X and y.
TrainSets ==
    {[X |-> Column(<<1, 2, 4, 3>>), y |-> <<0, 0, 1, 1>>],
     [X |-> Column(<<2, 2, 5>>), y |-> <<0, 1, 1>>]}

Call0 ==
    [op |-> "none", masks |-> <<>>, remove_overlap |-> FALSE,
     studies |-> NoStudies, regularization |-> PyNone, load_error |-> "",
     X |-> <<>>, y |-> <<>>, method |-> "", classifier |-> PyNone,
     output |-> "", cross_val |-> PyNone, class_weight |-> PyNone,
     param_grid |-> PyNone, scoring |-> ""]

\* The arguments classify_regions has by default.
RegionDefaults ==
    [method |-> "ERF", output |-> "summary", class_weight |-> PyStr("auto"),
     classifier |-> PyNone, cross_val |-> PyStr("4-Fold"),
     param_grid |-> PyNone]

ClassifyArgs ==
    [method : Methods, output : Outputs, class_weight : ClassWeights,
     classifier : Classifiers, cross_val : CrossVals, param_grid : ParamGrids]

\* The arguments of get_studies_by_regions.
PipelineArgs(fmt) ==
    [masks : MaskLists(fmt), remove_overlap : BOOLEAN,
     studies : StudyLists(fmt), regularization : Regularizations]

\* The calls of classify_regions that vary the classifier's arguments: two
\* masks sharing a study, with and without the removal of overlap, a list
\* of studies and a regularization, and one mask that cannot be loaded.
RegionSamples ==
    {[masks |-> <<Mask(TRUE, <<StudyId("digits", 1), StudyId("digits", 2)>>),
                  Mask(TRUE, <<StudyId("digits", 2), StudyId("digits", 3)>>)>>,
      remove_overlap |-> TRUE, studies |-> NoStudies,
      regularization |-> PyStr("scale")],
     [masks |-> <<Mask(TRUE, <<StudyId("mixed", 1), StudyId("mixed", 3)>>),
                  Mask(TRUE, <<StudyId("mixed", 3)>>)>>,
      remove_overlap |-> FALSE,
      studies |-> StudyList(StudyNames("mixed", {1, 2})),
      regularization |-> PyNone],
     [masks |-> <<Mask(TRUE, <<StudyId("mixed", 1)>>), Mask(FALSE, <<>>)>>,
      remove_overlap |-> TRUE, studies |-> NoStudies,
      regularization |-> PyStr("scale")]}

-----------------------------------------------------------------------------
(* The calls *)

Init ==
    /\ pc = "start"
    /\ call = Call0
    /\ gs = Frame0
    /\ w = NoWrapper
    /\ ret = NoRet

ItemOrders(masks, remove_overlap) ==
    IF remove_overlap /\ \A i \in 1..Len(masks) : masks[i].readable
    THEN CounterOrders(Flatten([i \in 1..Len(masks) |-> masks[i].ids]))
    ELSE {<<>>}

LoadErrorsOf(masks) ==
    IF \E i \in 1..Len(masks) : ~masks[i].readable THEN LoadErrors ELSE {""}

CallGetStudiesByRegions ==
    /\ pc = "start"
    /\ \E fmt \in IdFormats : \E p \in PipelineArgs(fmt) :
       \E load_error \in LoadErrorsOf(p.masks) :
       \E items \in ItemOrders(p.masks, p.remove_overlap) :
          /\ gs' = get_studies_by_regions(p.masks, p.remove_overlap, p.studies,
                                          p.regularization, load_error, items)
          /\ call' = [Call0 EXCEPT !.op = "get_studies_by_regions",
                         !.masks = p.masks, !.remove_overlap = p.remove_overlap,
                         !.studies = p.studies, !.load_error = load_error,
                         !.regularization = p.regularization]
    /\ pc' = "done"
    /\ UNCHANGED <<w, ret>>

CallRegularize ==
    /\ pc = "start"
    /\ \E t \in TrainSets : \E method \in Regularizations :
          LET r == regularize(t.X, method)
          IN /\ gs' = [Frame0 EXCEPT
                          !.status = IF r.raised # "" THEN "raised" ELSE "returned",
                          !.error = r.raised, !.regularize_calls = 1,
                          !.X_raw = t.X, !.X = r.X]
             /\ call' = [Call0 EXCEPT !.op = "regularize", !.X = t.X,
                            !.regularization = method]
    /\ pc' = "done"
    /\ UNCHANGED <<w, ret>>

CallClassifier ==
    /\ pc = "start"
    /\ \E clf_method \in Methods : \E classifier \in Classifiers :
       \E class_weight \in ClassWeights : \E param_grid \in ParamGrids :
          LET made == Classifier(clf_method, classifier, class_weight, param_grid)
          IN /\ w' = made.w
             /\ ret' = IF made.raised # "" THEN RetRaised("Classifier", made.raised)
                       ELSE Ret("Classifier", "wrapper", "none", {})
             /\ pc' = IF made.raised # "" THEN "done" ELSE "session"
             /\ call' = [Call0 EXCEPT !.op = "Classifier", !.method = clf_method,
                            !.classifier = classifier,
                            !.class_weight = class_weight,
                            !.param_grid = param_grid]
    /\ UNCHANGED gs

CallFit ==
    /\ pc = "session"
    /\ \E t \in TrainSets :
          /\ w' = fit(w, t.X, t.y)
          /\ ret' = Ret("fit", "estimator", "none", {})
          /\ call' = [Call0 EXCEPT !.op = "fit", !.X = t.X, !.y = t.y]
    /\ UNCHANGED <<pc, gs>>

CallCrossValFit ==
    /\ pc = "session"
    /\ \E t \in TrainSets : \E cross_val \in CrossVals :
          LET r == cross_val_fit(w, t.X, t.y, cross_val, "accuracy")
          IN /\ w' = r.w
             /\ ret' = IF r.raised # "" THEN RetRaised("cross_val_fit", r.raised)
                       ELSE Ret("cross_val_fit", "score", r.w.cvs.kind, {})
             /\ call' = [Call0 EXCEPT !.op = "cross_val_fit", !.X = t.X,
                            !.y = t.y, !.cross_val = cross_val,
                            !.scoring = "accuracy"]
    /\ UNCHANGED <<pc, gs>>

CallClassify ==
    /\ pc = "start"
    /\ \E t \in TrainSets : \E a \in ClassifyArgs :
          LET c == classify(t.X, t.y, a.method, a.classifier, a.output,
                            a.cross_val, a.class_weight, a.param_grid,
                            "accuracy")
          IN /\ w' = c.w
             /\ ret' = c.ret
             /\ call' = [Call0 EXCEPT !.op = "classify", !.X = t.X, !.y = t.y,
                            !.method = a.method, !.classifier = a.classifier,
                            !.output = a.output, !.cross_val = a.cross_val,
                            !.class_weight = a.class_weight,
                            !.param_grid = a.param_grid, !.scoring = "accuracy"]
    /\ pc' = "done"
    /\ UNCHANGED gs

\* classify_regions on every list of masks over ids of digits with its
\* default arguments for the classifier, and on the samples with every
\* argument.
CallClassifyRegions ==
    /\ pc = "start"
    /\ \E p \in PipelineArgs("digits") \cup RegionSamples :
       \E load_error \in LoadErrorsOf(p.masks) :
       \E items \in ItemOrders(p.masks, p.remove_overlap) :
       \E a \in IF p \in RegionSamples THEN ClassifyArgs ELSE {RegionDefaults} :
          LET c == classify_regions(p.masks, a.method, p.remove_overlap,
                       p.regularization, a.output, p.studies, a.class_weight,
                       a.classifier, a.cross_val, a.param_grid, "accuracy",
                       load_error, items)
          IN /\ gs' = c.gs
             /\ w' = c.w
             /\ ret' = c.ret
             /\ call' = [Call0 EXCEPT !.op = "classify_regions",
                            !.masks = p.masks,
                            !.remove_overlap = p.remove_overlap,
                            !.studies = p.studies, !.load_error = load_error,
                            !.regularization = p.regularization,
                            !.method = a.method, !.classifier = a.classifier,
                            !.output = a.output, !.cross_val = a.cross_val,
                            !.class_weight = a.class_weight,
                            !.param_grid = a.param_grid, !.scoring = "accuracy"]
    /\ pc' = "done"

Next ==
    \/ CallGetStudiesByRegions
    \/ CallRegularize
    \/ CallClassifier
    \/ CallFit
    \/ CallCrossValFit
    \/ CallClassify
    \/ CallClassifyRegions

Spec == Init /\ [][Next]_vars

-----------------------------------------------------------------------------
(* What the properties speak of *)

PipelineOps == {"get_studies_by_regions", "classify_regions"}
ClassifyOps == {"classify", "classify_regions"}

\* The call of the pipeline got the dataset's groups and built y from them.
BuiltLabels == call.op \in PipelineOps /\ gs.mask_queries > 0

\* The call of the pipeline asked the dataset for the feature data.
AskedFeatures == call.op \in PipelineOps /\ gs.feature_queries = 1

\* id, as it went to get_feature_data, is an id of group g.
InGroup(id, g) ==
    \E j \in 1..Len(g) : g[j] = id \/ (isdigit(g[j]) /\ int(g[j]) = id)

\* The number of groups id occurs in.
GroupsWith(id, groups) ==
    Cardinality({g \in 1..Len(groups) : id \in Range(groups[g])})

AllIds(groups) == UNION {Range(groups[g]) : g \in 1..Len(groups)}

\* The place of x in the sequence q.
Place(x, q) == CHOOSE i \in 1..Len(q) : q[i] = x

\* f holds elements of o, in the order they have in o.
KeepsOrder(f, o) ==
    /\ Range(f) \subseteq Range(o)
    /\ \A i, j \in 1..Len(f) : i < j => Place(f[i], o) < Place(f[j], o)

\* The X and y the classifier of the last call was given.
GivenX == IF call.op = "classify_regions" THEN gs.X ELSE call.X
GivenY == IF call.op = "classify_regions" THEN gs.y ELSE call.y

\* classify got as far as making its classifier.
ReachedClassifier ==
    \/ call.op \in {"Classifier", "classify"}
    \/ call.op = "classify_regions" /\ gs.status = "returned"

KnownMethods == {"SVM", "ERF", "GBC", "Dummy"}
KnownFolds == {"4-Fold", "3-Fold"}

-----------------------------------------------------------------------------
(* C1 *)

\* C1: y has one label per id given to get_feature_data, and y[i] is the
\* index of the filtered group that holds the i-th of these ids, for both
\* values of remove_overlap.
C1_LabelsFollowIds ==
    AskedFeatures =>
        /\ Len(gs.y) = Len(gs.flat_ids)
        /\ \A i \in 1..Len(gs.flat_ids) :
              /\ gs.y[i] + 1 \in 1..Len(gs.grouped_ids)
              /\ InGroup(gs.flat_ids[i], gs.grouped_ids[gs.y[i] + 1])

-----------------------------------------------------------------------------
(* C2 *)

\* C2: with remove_overlap the filtered groups are pairwise disjoint, their
\* union is the union of the dataset's groups less the ids that are in two
\* or more of them, and each keeps the order its ids had; without
\* remove_overlap the groups are the dataset's.
C2_OverlapRemoved ==
    BuiltLabels =>
        IF call.remove_overlap
        THEN /\ \A g, h \in 1..Len(gs.grouped_ids) :
                   g # h => Range(gs.grouped_ids[g]) \cap Range(gs.grouped_ids[h]) = {}
             /\ AllIds(gs.grouped_ids) =
                   {id \in AllIds(gs.grouped_in) : GroupsWith(id, gs.grouped_in) < 2}
             /\ Len(gs.grouped_ids) = Len(gs.grouped_in)
             /\ \A g \in 1..Len(gs.grouped_ids) :
                   /\ KeepsOrder(gs.grouped_ids[g], gs.grouped_in[g])
                   /\ Len(gs.grouped_ids[g]) = Cardinality(Range(gs.grouped_ids[g]))
        ELSE gs.grouped_ids = gs.grouped_in

\* A call that removed an id two masks share from a group of three and kept
\* the other two.
C2_Witness ==
    /\ BuiltLabels /\ call.remove_overlap /\ gs.status = "returned"
    /\ Len(gs.grouped_in) = 2
    /\ Len(gs.grouped_in[1]) = 3 /\ Len(gs.grouped_ids[1]) = 2
    /\ Len(gs.grouped_in[2]) = 1 /\ Len(gs.grouped_ids[2]) = 0

-----------------------------------------------------------------------------
(* C3 *)

\* C3 as claimed: a wrapper classify returns has never been fit when
\* cross_val is set and param_grid is no dict, and has been fit on X, y in
\* every other case.
C3_FitUnlessCrossValWithoutGrid ==
    (call.op \in ClassifyOps /\ ret.status = "ok" /\ ret.has_clf) =>
        IF Truthy(call.cross_val) /\ call.param_grid.t # "dict"
        THEN ~w.clf.fitted
        ELSE w.clf.fitted /\ w.clf.fit_X = GivenX /\ w.clf.fit_y = GivenY

\* The classifier given to the call is a grid search of the caller's.
GridSearchGiven ==
    call.classifier.t # "none" /\ IsGridSearchCV(Supplied(call.classifier))

\* C3, amended: the estimator of a returned wrapper is not fit by the call
\* when cross_val is set, param_grid is no dict and the classifier given is
\* no GridSearchCV; in every other returning case it has been fit on X, y.
C3_FitUnlessCrossValWithoutGridSearch ==
    (call.op \in ClassifyOps /\ ret.status = "ok" /\ ret.has_clf) =>
        IF Truthy(call.cross_val) /\ call.param_grid.t # "dict" /\ ~GridSearchGiven
        THEN ~w.clf.fitted /\ w.cvs.kind = "fold_scores"
        ELSE w.clf.fitted /\ w.clf.fit_X = GivenX /\ w.clf.fit_y = GivenY

\* classify_regions returned a wrapper that cross-validation only scored.
C3_Witness ==
    /\ call.op = "classify_regions" /\ ret.status = "ok" /\ ret.value = "clf"
    /\ Truthy(call.cross_val) /\ call.param_grid.t # "dict"
    /\ call.classifier.t = "none"
    /\ ~w.clf.fitted /\ w.cvs.kind = "fold_scores"

-----------------------------------------------------------------------------
(* C4 *)

\* C4 as claimed: an unknown clf_method makes the construction fail with
\* 'Unrecognized classification method', whatever the other arguments; no
\* wrapper is made and nothing is returned.
C4_UnknownMethodFails ==
    (ReachedClassifier /\ call.method \notin KnownMethods) =>
        /\ ret.status = "raised"
        /\ ret.error = "Unrecognized classification method"
        /\ ~w.exists
        /\ ret.value = "none"

\* C4, amended: it does so when no classifier is given.
C4_UnknownMethodFailsWithoutClassifier ==
    (ReachedClassifier /\ call.method \notin KnownMethods
                       /\ call.classifier.t = "none") =>
        /\ ret.status = "raised"
        /\ ret.error = "Unrecognized classification method"
        /\ ~w.exists
        /\ ret.value = "none"

\* classify_regions built X and y and then failed on the method's name.
C4_Witness ==
    /\ call.op = "classify_regions" /\ gs.status = "returned"
    /\ call.method = "XYZ" /\ call.classifier.t = "none"
    /\ call.param_grid.t = "dict"
    /\ ret.error = "Unrecognized classification method"

-----------------------------------------------------------------------------
(* C5 *)

\* The call of this step resolves cross_val as cross_val_fit does.
ResolvesFolds ==
    /\ call'.cross_val.t = "str" /\ call'.cross_val.v = "4-Fold" =>
          ret'.status = "ok" /\ w'.cver = StratifiedKFold(w'.y, 4)
    /\ call'.cross_val.t = "str" /\ call'.cross_val.v = "3-Fold" =>
          ret'.status = "ok" /\ w'.cver = StratifiedKFold(w'.y, 3)
    /\ call'.cross_val.t # "str" =>
          ret'.status = "ok" /\ w'.cver = Given(call'.cross_val)

\* The call of this step rejects cross_val: the error, and the estimator,
\* the fold generator and the scores are those of before the call.
RejectsFolds(before) ==
    /\ ret'.status = "raised"
    /\ ret'.error = "Unrecognized cross validation method"
    /\ w'.clf = before.clf
    /\ w'.cver = before.cver
    /\ w'.cvs = before.cvs

UnknownFolds(cross_val) == cross_val.t = "str" /\ cross_val.v \notin KnownFolds

\* The wrapper classify starts from.
Fresh == Classifier(call'.method, call'.classifier, call'.class_weight, call'.param_grid).w

\* C5 as claimed: '4-Fold' and '3-Fold' select stratified k-fold with k = 4
\* and 3, a value that is no string is the fold generator, and every other
\* string is rejected with 'Unrecognized cross validation method' before the
\* estimator is fit or scored and with no fold generator put in its place,
\* by cross_val_fit and by every call of classify and classify_regions.
C5_FoldsResolved ==
    [][/\ call'.op = "cross_val_fit" =>
            /\ ResolvesFolds
            /\ UnknownFolds(call'.cross_val) => RejectsFolds(w)
       /\ call'.op \in ClassifyOps /\ UnknownFolds(call'.cross_val) =>
            RejectsFolds(Fresh)]_vars

\* C5, amended: cross_val_fit does so; classify and classify_regions do so
\* for every such string that is not empty, once X and y are built and the
\* classifier is made (an empty string is false: classify fits without
\* cross-validation).
C5_FoldsResolvedWhenReached ==
    [][/\ call'.op = "cross_val_fit" =>
            /\ ResolvesFolds
            /\ UnknownFolds(call'.cross_val) => RejectsFolds(w)
       /\ (/\ call'.op \in ClassifyOps
           /\ call'.op = "classify_regions" => gs'.status = "returned"
           /\ Fresh.exists
           /\ Truthy(call'.cross_val)) =>
            /\ ResolvesFolds
            /\ UnknownFolds(call'.cross_val) => RejectsFolds(Fresh)
       /\ (/\ call'.op \in ClassifyOps
           /\ call'.op = "classify_regions" => gs'.status = "returned"
           /\ Fresh.exists
           /\ ~Truthy(call'.cross_val)) =>
            /\ ret'.status = "ok"
            /\ w'.cver = NoCver /\ w'.cvs = NoScores]_vars

\* cross_val_fit rejected '5-Fold' on a wrapper that was fit and held the
\* scores of three folds.
C5_Witness ==
    /\ call.op = "cross_val_fit" /\ IsStr(call.cross_val, "5-Fold")
    /\ ret.error = "Unrecognized cross validation method"
    /\ w.cvs.kind = "fold_scores" /\ w.cver.k = 3 /\ w.clf.fitted

-----------------------------------------------------------------------------
(* C6 *)

SomeMaskUnreadable ==
    call.op \in PipelineOps /\ \E i \in 1..Len(call.masks) : ~call.masks[i].readable

\* C6: when a mask cannot be loaded the call fails with the load error
\* itself: the error is not swallowed, the dataset is never asked, and
\* nothing is returned.
C6_LoadErrorPropagates ==
    SomeMaskUnreadable =>
        /\ gs.status = "raised"
        /\ gs.error = call.load_error
        /\ ~gs.printed
        /\ gs.mask_queries = 0 /\ gs.feature_queries = 0
        /\ call.op = "classify_regions" =>
              ret.status = "raised" /\ ret.error = call.load_error

-----------------------------------------------------------------------------
(* C7 *)

\* C7 as claimed: regularize(X, method) with a method that is None or false
\* returns X as it is and does not fail.
C7_FalsyMethodIsIdentity ==
    (call.op = "regularize" /\ ~Truthy(call.regularization)) =>
        gs.status = "returned" /\ gs.X = call.X

\* C7, amended: regularize itself raises 'Unrecognized regularization
\* method' for such a method; it is get_studies_by_regions that, given a
\* regularization that is None or false, does not call regularize and
\* returns the X of get_feature_data as it is.
C7_FalsyRegularizationSkipsRegularize ==
    /\ (call.op = "regularize" /\ ~Truthy(call.regularization)) =>
          /\ gs.status = "raised"
          /\ gs.error = "Unrecognized regularization method"
    /\ (AskedFeatures /\ ~Truthy(call.regularization)) =>
          /\ gs.status = "returned"
          /\ gs.regularize_calls = 0
          /\ gs.X = gs.X_raw
          /\ gs.X = get_feature_data(gs.flat_ids)

\* A call with regularization None returned a matrix that scaling would
\* have changed.
C7_Witness ==
    /\ AskedFeatures /\ call.regularization = PyNone
    /\ gs.status = "returned"
    /\ Len(gs.X) = 3 /\ scale(gs.X) # gs.X

-----------------------------------------------------------------------------
(* C8 *)

\* C8: a list of studies given to the call constrains the studies used:
\* every id given to get_feature_data is one of the list.
C8_StudiesConstrain ==
    (AskedFeatures /\ call.studies.given) =>
        \A i \in 1..Len(gs.flat_ids) : gs.flat_ids[i] \in call.studies.ids

-----------------------------------------------------------------------------
(* C9 *)

\* The integer a study id stands for, when it stands for one.
IsInteger(id) == id.t = "int" \/ isdigit(id)
AsInteger(id) == IF id.t = "int" THEN id ELSE int(id)

\* C9: the normalisation of ids that are strings or integers ends without
\* an error; when every id stands for an integer all become integers, when
\* one is a string that is no number all stay as they are; the number and
\* the order of the ids do not change.
C9_IdsNormalised ==
    BuiltLabels =>
        /\ gs.error # "AttributeError"
        /\ gs.feature_queries = 1
        /\ Len(gs.flat_ids) = Len(gs.listed_ids)
        /\ \A i \in 1..Len(gs.listed_ids) :
              gs.flat_ids[i] =
                 IF \A j \in 1..Len(gs.listed_ids) : IsInteger(gs.listed_ids[j])
                 THEN AsInteger(gs.listed_ids[i])
                 ELSE gs.listed_ids[i]

-----------------------------------------------------------------------------
(* C10 *)

\* C10: a call of cross_val_fit that fails leaves the X and y, the fold
\* generator, the scores and the estimator of the wrapper as they were.
C10_FailedCrossValFitChangesNothing ==
    [][(call'.op = "cross_val_fit" /\ ret'.status = "raised") => w' = w]_vars

=============================================================================
